---- MODULE Spec2Model ----
(***************************************************************************)
(* Model of the process-table pipeline of the task manager:                *)
(*   backend.list_processes   (src/backend.py)   cached acquisition        *)
(*   CPUScheduler             (src/scheduler.py) tracker and ordering      *)
(*                                                                         *)
(* Units.  Times are integer milliseconds (time.time() is in seconds, so   *)
(* CACHE_DURATION = 1.0 is 1000 here).  cpu_percent and memory_mb are in   *)
(* tenths, the resolution list_processes emits (round(x, 1)): the value 51 *)
(* is 5.1.  Priorities and process numbers are plain integers.             *)
(***************************************************************************)
EXTENDS Integers, Sequences, FiniteSets, TLC

\* ------------------------------------------------------------------ bounds

\* schedule_processes calls explored in one behaviour of Spec
MaxCalls == 3
\* schedule_processes calls explored in one behaviour of PrioritySpec
MaxPriorityCalls == 2
\* pids 1..MaxOrderPids make up the batches of OrderSpec
MaxOrderPids == 3
\* cpu_percent values 0.0 .. MaxCpuTenths/10 are all offered to the priority formulas
MaxCpuTenths == 105

\* list_processes is called with max_count in 0..MaxCountArg
MaxCountArg == 2
\* list_processes calls explored in one behaviour of BackendSpec
MaxListCalls == 2
\* clock ticks of BackendSpec
MaxTicks == 2
\* cycles of the sampling loop and user actions explored in one behaviour of
\* GuiSpec
MaxCycles == 2
MaxGuiEvents == 2

\* pids and cpu_percent samples (tenths) of Spec: 5.0 is the last value of the
\* user queue, 10.1 the first that earns the +20 of the base priority
Pids == {1, 2}
CpuSamples == {50, 101}
\* pids and samples of OrderSpec: the values 2.0, 5.0 and 40.0
OrderPids == 1..MaxOrderPids
OrderCpuSamples == {20, 50, 400}
\* samples above MaxCpuTenths: where the base priority saturates, a multi-core 400.0
HighCpuSamples == {250, 251, 500, 4000}
\* samples of RepeatSpec: at 0.5 the base priority is 51, which the blend with
\* itself lowers call after call, so that the tracker changes on equal batches
RepeatCpuSamples == {5, 101}
\* time that passes between two calls, in ms
ClockSteps == {250}
\* the pids the host can run, and the length of one clock tick of BackendSpec
HostPids == {1, 2, 3}
\* the processes that exit and start while the program runs
ChangingPids == {1}
TickSteps == {500}

\* ------------------------------------------------------------- arithmetic

RECURSIVE Pow2(_)
Pow2(n) == IF n <= 0 THEN 1 ELSE 2 * Pow2(n - 1)

Min(a, b) == IF a <= b THEN a ELSE b

Max(a, b) == IF a >= b THEN a ELSE b

(***************************************************************************)
(* IEEE-754 binary64 arithmetic, exactly, for the one expression that      *)
(* needs it: int(old * 0.7 + base * 0.3).  A positive double x is held as  *)
(* the pair <<T, lo>> with  x = T/10 + lo * u,  u = 2^-54 / 10.  The       *)
(* literals are 0.7 = 7/10 - 8u and 0.3 = 3/10 - 2u (their nearest         *)
(* doubles), an int times a literal is exact before rounding, and every    *)
(* operation rounds its exact result to 53 significant bits, ties to even. *)
(***************************************************************************)
DblExponent(T, lo) ==
    CHOOSE e \in -2..8 :
        IF lo < 0 THEN 10 * Pow2(e + 3) < 8 * T /\ 8 * T <= 10 * Pow2(e + 4)
        ELSE 10 * Pow2(e + 3) <= 8 * T /\ 8 * T < 10 * Pow2(e + 4)

\* 2^m mod 10 and 2^m mod 20 for m >= 2
TwoPowMod10(m) == CASE m % 4 = 0 -> 6 [] m % 4 = 1 -> 2 [] m % 4 = 2 -> 4 [] OTHER -> 8

TwoPowMod20(m) == CASE m % 4 = 0 -> 16 [] m % 4 = 1 -> 12 [] m % 4 = 2 -> 4 [] OTHER -> 8

\* the number of ulps to step from the grid point below T/10: off is the exact
\* value's distance above that point and G one ulp, both in units of u; ties go
\* to the even grid point (belowOdd: the grid point below T/10 is odd)
DblSteps(off, G, belowOdd) ==
    IF 2 * (off % G) < G THEN off \div G
    ELSE IF 2 * (off % G) > G THEN (off \div G) + 1
    ELSE IF ((off \div G) % 2 = 1) # belowOdd THEN (off \div G) + 1
    ELSE off \div G

DblRoundAt(T, lo, scale, r10, r20) ==
    <<T, DblSteps(r10 * scale + lo, 10 * scale, (r20 - r10) \div 10 = 1) * 10 * scale
         - r10 * scale>>

DblRoundExp(T, lo, e) ==
    DblRoundAt(T, lo, Pow2(e + 2), (T * TwoPowMod10(52 - e)) % 10,
               (T * TwoPowMod20(52 - e)) % 20)

\* round-to-nearest-even of T/10 + lo*u onto the binary64 grid
DblRound(T, lo) == DblRoundExp(T, lo, DblExponent(T, lo))

\* the rounded sum of two doubles
DblAdd(a, b) == DblRound(a[1] + b[1], a[2] + b[2])

\* the rounded product of the integer n and the literal <<T, lo>>
DblMul(n, literal) == DblRound(n * literal[1], n * literal[2])

Dbl07 == <<7, -8>>

Dbl03 == <<3, -2>>

\* int(x) of a positive double
DblTrunc(d) ==
    IF d[1] % 10 # 0 THEN d[1] \div 10
    ELSE (d[1] \div 10) - (IF d[2] < 0 THEN 1 ELSE 0)

\* int(cpu_percent * 2): doubling a double is exact, int() truncates toward 0
IntTimes2(cpu) == IF cpu >= 0 THEN (2 * cpu) \div 10 ELSE -((-(2 * cpu)) \div 10)

\* ------------------------------------------------------------------ state

VARIABLES
    now,                    \* the wall clock time.time() reads, in ms
    algorithm,              \* CPUScheduler.algorithm
    time_quantum,           \* CPUScheduler.time_quantum
    current_time,           \* CPUScheduler.current_time
    process_arrival_times,  \* CPUScheduler.process_arrival_times: pid -> arrival
    process_priorities,     \* CPUScheduler.process_priorities:    pid -> priority
    process_numbers,        \* CPUScheduler.process_numbers:       pid -> number
    process_counter,        \* CPUScheduler.process_counter
    start_time,             \* CPUScheduler.start_time
    processes,              \* argument of the latest schedule_processes call
    result,                 \* list the latest schedule_processes call returned
    rotation,               \* the local 'rotation' of the latest _round_robin call
    calls,                  \* number of schedule_processes calls made
    numberLog,              \* history: process numbers in order of assignment
    seen,                   \* history: pid -> annotations of its latest sighting
    missed,                 \* history: pids sighted, then absent from a later batch
    prior,                  \* history: pid -> priority it had when the latest call began
    PSUTIL,                 \* backend.PSUTIL: psutil could be imported
    IS_WINDOWS,             \* backend.IS_WINDOWS
    process_cache,          \* backend._process_cache (a dict, {} at import)
    cache_timestamp,        \* backend._cache_timestamp
    host,                   \* the pids alive on the host
    args,                   \* arguments of the latest list_processes call
    returned,               \* list the latest list_processes call returned
    served,                 \* how it was produced: "cache", "primary" or "fallback"
    list_calls,             \* number of list_processes calls made
    acquisition,            \* history: start time and arguments of the latest acquisition
    thread_pc,              \* where ProcessUpdateThread.run stands ("done": it returned)
    running,                \* ProcessUpdateThread.running
    force_update,           \* ProcessUpdateThread.force_update
    thread_apps_only,       \* getattr(thread, 'apps_only', True)
    slept,                  \* the local 'slept' of run
    thread_processes,       \* the local 'processes' of run: the list object to emit
    call_apps_only,         \* the apps_only argument of the thread's call in progress
    gui_processes,          \* the local 'processes' of refresh_data
    cycles,                 \* number of cycles run has started, over all threads
    gui_pc,                 \* "idle", or "waiting" inside stop()'s wait(2000)
    pause_checked,          \* pause_act.isChecked()
    apps_only_checked,      \* apps_only_act.isChecked()
    status,                 \* text of update_status_label
    queue,                  \* process_data_ready events posted to the GUI thread
    objects,                \* the list objects alive: object id -> records
    cache_object,           \* id of the list object the cache holds
    gui_events,             \* number of user actions handled
    produced,               \* history: object id -> batch as its acquisition returned it
    writers,                \* history: who wrote the tracker tables and the cache
    after_stop,             \* history: batches emitted and sleep slices begun since
                            \*          running was set to False, whether stop() has
                            \*          returned, and whether anything was emitted
                            \*          after that
    unserved                \* history: 0, or 1 + the sleep slices begun since a
                            \*          force_update signal that no call has served

schedVars == <<algorithm, time_quantum, current_time, process_arrival_times,
               process_priorities, process_numbers, process_counter, start_time,
               processes, result, rotation, calls, numberLog, seen, missed, prior>>

backVars == <<PSUTIL, IS_WINDOWS, process_cache, cache_timestamp, host, args, returned,
              served, list_calls, acquisition>>

guiVars == <<thread_pc, running, force_update, thread_apps_only, slept, thread_processes,
             call_apps_only, gui_processes, cycles, gui_pc, pause_checked, apps_only_checked, status, queue, objects,
             cache_object, gui_events, produced, writers, after_stop, unserved>>

vars == <<now, schedVars, backVars, guiVars>>

\* the clock when the program starts: long after the epoch
StartClock == 2 * 1000

\* -------------------------------------------------------------- scheduler

SchedulingAlgorithm == {"FCFS", "SJF", "PRIORITY", "ROUND_ROBIN", "MULTILEVEL_QUEUE"}

EmptyMap == [p \in {} |-> 0]

Restrict(f, S) == [p \in (DOMAIN f) \cap S |-> f[p]]

PidsOf(batch) == {batch[i].pid : i \in 1..Len(batch)}

\* the base priority both branches compute from the sample (lines 76-79, 84-86)
MutBasePriorityNoCap(cpu_percent) ==
    LET priority == Max(1, IntTimes2(cpu_percent) + 50)
    IN  IF cpu_percent > 100 THEN priority + 20 ELSE priority

MutBasePriorityBoost(cpu_percent) ==
    LET priority == Min(100, Max(1, IntTimes2(cpu_percent) + 50))
    IN  IF cpu_percent >= 100 THEN Min(100, priority + 20) ELSE priority

BasePriority(cpu_percent) ==
    LET priority == Min(100, Max(1, IntTimes2(cpu_percent) + 50))
    IN  IF cpu_percent > 100 THEN Min(100, priority + 20) ELSE priority

\* int(old * 0.7 + base_priority * 0.3) in binary64 (line 88)
MutBlendPriority(old, base_priority) == (7 * old + 3 * base_priority + 5) \div 10

BlendPriority(old, base_priority) ==
    DblTrunc(DblAdd(DblMul(old, Dbl07), DblMul(base_priority, Dbl03)))

\* 'pid not in self.process_arrival_times' (line 62)
MutIsNewPid(st, pid) == TRUE

IsNewPid(st, pid) == pid \notin DOMAIN st.arrival

\* 'self.process_counter += 1' (line 64)
MutNextProcessNumber(st) == Cardinality(DOMAIN st.number) + 1

NextProcessNumber(st) == st.counter + 1

\* one iteration of the annotation loop (lines 58-92) on the tables st
TrackOne(st, process, call_time) ==
    LET pid     == process.pid
        newPid  == IsNewPid(st, pid)
        counter == IF newPid THEN NextProcessNumber(st) ELSE st.counter
        arrival == IF newPid THEN (pid :> call_time - start_time) @@ st.arrival
                   ELSE st.arrival
        number  == IF newPid THEN (pid :> counter) @@ st.number ELSE st.number
        shown   == IF newPid THEN counter
                   ELSE IF pid \in DOMAIN st.number THEN st.number[pid] ELSE st.counter
        base    == BasePriority(process.cpu_percent)
        prio    == IF pid \notin DOMAIN st.priority
                   THEN (pid :> base) @@ st.priority
                   ELSE [st.priority EXCEPT ![pid] = BlendPriority(st.priority[pid], base)]
        rec     == [pid |-> pid, cpu_percent |-> process.cpu_percent,
                    process_number |-> shown, arrival_time |-> arrival[pid],
                    priority |-> prio[pid]]
    IN  [arrival |-> arrival, priority |-> prio, number |-> number, counter |-> counter,
         out |-> Append(st.out, rec),
         log |-> IF newPid THEN Append(st.log, counter) ELSE st.log]

RECURSIVE TrackAll(_, _, _, _)
TrackAll(st, batch, n, call_time) ==
    IF n = 0 THEN st
    ELSE TrackOne(TrackAll(st, batch, n - 1, call_time), batch[n], call_time)

\* Python's sorted(seq, key=lambda x: x.get(key, 0), reverse=reverse): stable
SortsAfter(a, b, reverse) == IF reverse THEN a < b ELSE a > b

MutInsertSorted(s, x, key, reverse) ==
    LET pos == Cardinality({i \in 1..Len(s) : SortsAfter(x[key], s[i][key], reverse)})
    IN  SubSeq(s, 1, pos) \o <<x>> \o SubSeq(s, pos + 1, Len(s))

InsertSorted(s, x, key, reverse) ==
    LET pos == Cardinality({i \in 1..Len(s) : ~SortsAfter(s[i][key], x[key], reverse)})
    IN  SubSeq(s, 1, pos) \o <<x>> \o SubSeq(s, pos + 1, Len(s))

RECURSIVE SortedPrefix(_, _, _, _)
SortedPrefix(seq, n, key, reverse) ==
    IF n = 0 THEN <<>>
    ELSE InsertSorted(SortedPrefix(seq, n - 1, key, reverse), seq[n], key, reverse)

Sorted(seq, key, reverse) == SortedPrefix(seq, Len(seq), key, reverse)

MutFcfs(procs) == Sorted(procs, "cpu_percent", FALSE)

\* first come first served by the smoothed priority instead of the arrival
MutFcfsByPriority(procs) == Sorted(procs, "priority", TRUE)

Fcfs(procs) == Sorted(procs, "arrival_time", FALSE)

MutSjf(procs) == Sorted(procs, "cpu_percent", TRUE)

Sjf(procs) == Sorted(procs, "cpu_percent", FALSE)

MutPriority(procs) == Sorted(procs, "priority", FALSE)

Priority(procs) == Sorted(procs, "priority", TRUE)

\* rotation = (self.current_time // self.time_quantum) % len(processes)
MutRotation(procs) == calls % Len(procs)

Rotation(procs) == (current_time \div time_quantum) % Len(procs)

RoundRobin(procs) ==
    IF procs = <<>> THEN procs
    ELSE LET r       == Rotation(procs)
             rotated == SubSeq(procs, r + 1, Len(procs)) \o SubSeq(procs, 1, r)
         IN  Sorted(rotated, "cpu_percent", TRUE)

InSystemQueue(p) == p.cpu_percent > 50

InUserQueue(p) == p.cpu_percent <= 50

InUserQueueStrict(p) == p.cpu_percent < 50

MutMultilevelQueueOrder(procs) ==
    LET system_queue == SelectSeq(procs, InSystemQueue)
        user_queue   == SelectSeq(procs, InUserQueue)
    IN  Sorted(user_queue, "cpu_percent", TRUE) \o Sorted(system_queue, "cpu_percent", TRUE)

MutMultilevelQueue(procs) ==
    LET system_queue == SelectSeq(procs, InSystemQueue)
        user_queue   == SelectSeq(procs, InUserQueueStrict)
    IN  Sorted(system_queue, "cpu_percent", TRUE) \o Sorted(user_queue, "cpu_percent", TRUE)

MultilevelQueue(procs) ==
    LET system_queue == SelectSeq(procs, InSystemQueue)
        user_queue   == SelectSeq(procs, InUserQueue)
    IN  Sorted(system_queue, "cpu_percent", TRUE) \o Sorted(user_queue, "cpu_percent", TRUE)

\* the dispatch of lines 100-111
Dispatch(procs) ==
    CASE algorithm = "FCFS" -> Fcfs(procs)
      [] algorithm = "SJF" -> Sjf(procs)
      [] algorithm = "PRIORITY" -> Priority(procs)
      [] algorithm = "ROUND_ROBIN" -> RoundRobin(procs)
      [] algorithm = "MULTILEVEL_QUEUE" -> MultilevelQueue(procs)
      [] OTHER -> procs

\* schedule_processes(batch), time.time() reading call_time: its effect on the
\* scheduler and the clock
ScheduleCore(batch, call_time) ==
    /\ calls < MaxCalls
    /\ calls' = calls + 1
    /\ now' = call_time
    /\ processes' = batch
    /\ prior' = process_priorities
    /\ UNCHANGED <<algorithm, time_quantum, current_time, start_time>>
    /\ IF batch = <<>>
       THEN \* lines 53-54: returned before the tables are touched
            /\ result' = batch
            /\ missed' = missed \cup DOMAIN seen
            /\ UNCHANGED <<process_arrival_times, process_priorities, process_numbers,
                           process_counter, rotation, numberLog, seen>>
       ELSE \E st \in {TrackAll([arrival |-> process_arrival_times,
                                  priority |-> process_priorities,
                                  number |-> process_numbers,
                                  counter |-> process_counter,
                                  out |-> <<>>, log |-> numberLog],
                                 batch, Len(batch), call_time)} :
            \E current_pids \in {PidsOf(batch)} :
                \* lines 94-98: the clean-up, then the dispatch
                /\ process_arrival_times' = Restrict(st.arrival, current_pids)
                /\ process_priorities' = Restrict(st.priority, current_pids)
                /\ process_numbers' = Restrict(st.number, current_pids)
                /\ process_counter' = st.counter
                /\ result' = Dispatch(st.out)
                /\ rotation' = IF algorithm = "ROUND_ROBIN" THEN Rotation(st.out)
                               ELSE rotation
                /\ numberLog' = st.log
                /\ seen' = [p \in (DOMAIN seen) \cup current_pids |->
                              IF p \in current_pids
                              THEN st.out[CHOOSE j \in 1..Len(st.out) : st.out[j].pid = p]
                              ELSE seen[p]]
                /\ missed' = (missed \cup DOMAIN seen) \ current_pids

\* schedule_processes called on its own, outside the GUI
ScheduleProcesses(batch, call_time) ==
    /\ ScheduleCore(batch, call_time)
    /\ UNCHANGED <<backVars, guiVars>>

MutSetAlgorithmCore(a) ==
    /\ algorithm' = a
    /\ process_counter' = 0
    /\ UNCHANGED <<time_quantum, current_time, process_arrival_times,
                   process_priorities, process_numbers, start_time,
                   processes, result, rotation, calls, numberLog, seen, missed, prior>>

\* set_algorithm(algorithm): its effect on the scheduler
SetAlgorithmCore(a) ==
    /\ algorithm' = a
    /\ UNCHANGED <<time_quantum, current_time, process_arrival_times,
                   process_priorities, process_numbers, process_counter, start_time,
                   processes, result, rotation, calls, numberLog, seen, missed, prior>>

SetAlgorithm(a) ==
    /\ SetAlgorithmCore(a)
    /\ UNCHANGED <<now, backVars, guiVars>>

\* the batches fed to the scheduler: the sequences of records with distinct
\* pids (pid is unique within a batch), of every length and in every order
RECURSIVE Batches(_, _)
Batches(pids, cpus) ==
    {<<>>} \cup UNION {{<<[pid |-> p, cpu_percent |-> c]>> \o rest :
                          c \in cpus, rest \in Batches(pids \ {p}, cpus)} : p \in pids}

\* ---------------------------------------------------------------- backend

CACHE_DURATION == 1000

EmptyDict == [k \in {} |-> 0]

\* what psutil reports for a pid: cpu_percent and memory_mb in tenths
HostCpu(pid) == CASE pid = 2 -> 120 [] OTHER -> 0

HostMem(pid) == CASE pid = 1 -> 30 [] pid = 2 -> 10 [] OTHER -> 50

\* the process table in the order the host enumerates it: ascending pid
RECURSIVE Enumerate(_)
Enumerate(live) ==
    IF live = {} THEN <<>>
    ELSE LET first == CHOOSE p \in live : \A q \in live : p <= q
         IN  <<first>> \o Enumerate(live \ {first})

\* the validity test of line 66
MutCacheValid(cache, timestamp, current_time_, max_count, apps_only) ==
    /\ (current_time_ - timestamp) <= CACHE_DURATION
    /\ "max_count" \in DOMAIN cache
    /\ cache.max_count = max_count
    /\ cache.apps_only = apps_only

CacheValid(cache, timestamp, current_time_, max_count, apps_only) ==
    /\ (current_time_ - timestamp) < CACHE_DURATION
    /\ "max_count" \in DOMAIN cache
    /\ cache.max_count = max_count
    /\ cache.apps_only = apps_only

\* 'if max_count and len(procs) >= max_count' (line 110)
Enough(procs, max_count) == max_count # 0 /\ Len(procs) >= max_count

HostName(pid) == CASE pid = 1 -> "alpha.exe" [] pid = 2 -> "beta.exe" [] OTHER -> "gamma.exe"

\* the record of lines 101-107
ProcessRecord(pid) ==
    [pid |-> pid, name |-> HostName(pid), exe |-> HostName(pid),
     memory_mb |-> HostMem(pid), cpu_percent |-> HostCpu(pid)]

\* _get_visible_window_pids: the pids owning a visible window, and the empty
\* set off Windows or when the enumeration raises (lines 144-145, 172-174)
GetVisibleWindowPids(windows_ok, windows) ==
    IF ~IS_WINDOWS THEN {} ELSE IF windows_ok THEN windows ELSE {}

\* the collection loop of lines 89-114 from position i: a process whose read
\* raises NoSuchProcess or AccessDenied is skipped, one without a visible
\* window is skipped when the filter is on, the loop ends early once there are
\* enough records, and any other exception of a read leaves the loop (raised)
RECURSIVE MutCollect(_, _, _, _, _, _, _, _)
MutCollect(plist, i, procs, max_count, filtering, visible, unreadable, faulty) ==
    IF i > Len(plist) THEN [procs |-> procs, raised |-> FALSE]
    ELSE IF plist[i] \in faulty THEN [procs |-> procs, raised |-> TRUE]
    ELSE IF plist[i] \in unreadable THEN [procs |-> procs, raised |-> FALSE]
    ELSE IF filtering /\ plist[i] \notin visible
         THEN MutCollect(plist, i + 1, procs, max_count, filtering, visible, unreadable,
                         faulty)
    ELSE IF Enough(Append(procs, ProcessRecord(plist[i])), max_count)
         THEN [procs |-> Append(procs, ProcessRecord(plist[i])), raised |-> FALSE]
    ELSE MutCollect(plist, i + 1, Append(procs, ProcessRecord(plist[i])),
                    max_count, filtering, visible, unreadable, faulty)

RECURSIVE Collect(_, _, _, _, _, _, _, _)
Collect(plist, i, procs, max_count, filtering, visible, unreadable, faulty) ==
    IF i > Len(plist) THEN [procs |-> procs, raised |-> FALSE]
    ELSE IF plist[i] \in faulty THEN [procs |-> procs, raised |-> TRUE]
    ELSE IF plist[i] \in unreadable
         THEN Collect(plist, i + 1, procs, max_count, filtering, visible, unreadable, faulty)
    ELSE IF filtering /\ plist[i] \notin visible
         THEN Collect(plist, i + 1, procs, max_count, filtering, visible, unreadable, faulty)
    ELSE IF Enough(Append(procs, ProcessRecord(plist[i])), max_count)
         THEN [procs |-> Append(procs, ProcessRecord(plist[i])), raised |-> FALSE]
    ELSE Collect(plist, i + 1, Append(procs, ProcessRecord(plist[i])),
                 max_count, filtering, visible, unreadable, faulty)

\* procs.sort(key=lambda x: (x['cpu_percent'], x['memory_mb']), reverse=True)
CpuMemLess(a, b) ==
    \/ a.cpu_percent < b.cpu_percent
    \/ a.cpu_percent = b.cpu_percent /\ a.memory_mb < b.memory_mb

InsertByCpuMem(s, x) ==
    LET pos == Cardinality({i \in 1..Len(s) : ~CpuMemLess(s[i], x)})
    IN  SubSeq(s, 1, pos) \o <<x>> \o SubSeq(s, pos + 1, Len(s))

RECURSIVE SortByCpuMem(_, _)
SortByCpuMem(seq, n) ==
    IF n = 0 THEN <<>> ELSE InsertByCpuMem(SortByCpuMem(seq, n - 1), seq[n])

\* the psutil path of lines 77-117: the sorted records, or raised
PrimaryScan(live, max_count, filtering, visible, unreadable, faulty) ==
    LET scan == Collect(Enumerate(live), 1, <<>>, max_count, filtering, visible,
                        unreadable, faulty)
    IN  [procs |-> SortByCpuMem(scan.procs, Len(scan.procs)), raised |-> scan.raised]

\* 'out.splitlines()[:max_count] if max_count else out.splitlines()' (line 194)
TasklistLines(live, max_count) ==
    IF max_count # 0 THEN SubSeq(Enumerate(live), 1, Min(max_count, Cardinality(live)))
    ELSE Enumerate(live)

KeptByFilter(filtering, visible, pid) == ~filtering \/ pid \in visible

\* the record of lines 214-219: memory as tasklist prints it, cpu_percent 0.0
MutFallbackRecord(pid) ==
    [pid |-> pid, name |-> HostName(pid), memory_mb |-> 0, cpu_percent |-> 0]

FallbackRecord(pid) ==
    [pid |-> pid, name |-> HostName(pid), memory_mb |-> HostMem(pid), cpu_percent |-> 0]

\* _get_processes_fallback: the tasklist lines, filtered, in tasklist order;
\* nothing off Windows or when tasklist fails
RECURSIVE FallbackRows(_, _, _, _)
FallbackRows(lines, n, filtering, visible) ==
    IF n = 0 THEN <<>>
    ELSE IF KeptByFilter(filtering, visible, lines[n])
         THEN Append(FallbackRows(lines, n - 1, filtering, visible), FallbackRecord(lines[n]))
    ELSE FallbackRows(lines, n - 1, filtering, visible)

GetProcessesFallback(live, max_count, filtering, visible, tasklist_ok) ==
    IF IS_WINDOWS /\ tasklist_ok
    THEN FallbackRows(TasklistLines(live, max_count),
                      Len(TasklistLines(live, max_count)), filtering, visible)
    ELSE <<>>

\* what the host answers during one acquisition: windows_ok and windows are the
\* outcome of the window enumeration, unreadable the processes whose read
\* raises NoSuchProcess or AccessDenied, faulty those whose read raises another
\* exception, enumeration_ok whether psutil.process_iter itself succeeds,
\* tasklist_ok whether tasklist runs
HostAnswer(windows_ok, windows, unreadable, faulty, enumeration_ok, tasklist_ok) ==
    [windows_ok |-> windows_ok, windows |-> windows, unreadable |-> unreadable,
     faulty |-> faulty, enumeration_ok |-> enumeration_ok, tasklist_ok |-> tasklist_ok]

\* lines 69-124: the batch of one acquisition and the path that produced it
Acquire(live, max_count, apps_only, answer) ==
    LET filtering == apps_only /\ IS_WINDOWS
        visible   == GetVisibleWindowPids(answer.windows_ok, answer.windows)
        scan      == PrimaryScan(live, max_count, filtering, visible, answer.unreadable,
                                 answer.faulty)
    IN  IF PSUTIL /\ answer.enumeration_ok /\ ~scan.raised
        THEN [procs |-> scan.procs, path |-> "primary"]
        ELSE [procs |-> GetProcessesFallback(live, max_count, filtering, visible,
                                             answer.tasklist_ok),
              path |-> "fallback"]

\* list_processes(max_count, apps_only), the host answering with 'answer': its
\* effect on the backend
ListCore(max_count, apps_only, answer) ==
    /\ list_calls' = list_calls + 1
    /\ args' = [max_count |-> max_count, apps_only |-> apps_only]
    /\ IF CacheValid(process_cache, cache_timestamp, now, max_count, apps_only)
       THEN /\ returned' = (IF "processes" \in DOMAIN process_cache
                            THEN process_cache.processes ELSE <<>>)
            /\ served' = "cache"
            /\ UNCHANGED <<process_cache, cache_timestamp, acquisition>>
       ELSE \E got \in {Acquire(host, max_count, apps_only, answer)} :
                /\ process_cache' = [processes |-> got.procs, max_count |-> max_count,
                                     apps_only |-> apps_only, timestamp |-> now]
                /\ cache_timestamp' = now
                /\ returned' = got.procs
                /\ served' = got.path
                /\ acquisition' = [start |-> now, max_count |-> max_count,
                                   apps_only |-> apps_only, answer |-> answer]
    /\ UNCHANGED <<PSUTIL, IS_WINDOWS, host>>

\* list_processes called on its own, outside the GUI
ListProcesses(max_count, apps_only, answer) ==
    /\ list_calls < MaxListCalls
    /\ ListCore(max_count, apps_only, answer)
    /\ UNCHANGED <<now, schedVars, guiVars>>

\* a process of the host exits, or one starts
HostChange(pid) ==
    /\ host' = IF pid \in host THEN host \ {pid} ELSE host \cup {pid}
    /\ UNCHANGED <<now, schedVars, PSUTIL, IS_WINDOWS, process_cache, cache_timestamp,
                   args, returned, served, list_calls, acquisition, guiVars>>

\* time passes
Tick(d) ==
    /\ now + d <= StartClock + MaxTicks * d
    /\ now' = now + d
    /\ UNCHANGED <<schedVars, backVars, guiVars>>

\* -------------------------------------------------------------------- gui

\* psutil.cpu_percent(interval=0.3) blocks for the interval (backend.py:20)
CPU_INTERVAL == 300

\* the sleep phase of run: 3000 ms in slices of 200 ms, system info again at
\* 0 and 1500 (gui.py:53, 59, 67)
SLEEP_TOTAL == 3000

SLEEP_SLICE == 200

SLEEP_HALF == 1500

\* the back-off after an exception (gui.py:72)
ERROR_BACKOFF == 2000

\* list_processes(max_count=150, ...) of gui.py:47 and gui.py:1193
GUI_MAX_COUNT == 150

\* the host as the GUI model sees it: pids 1 and 2 own a visible window, every
\* read succeeds
GuiAnswer == HostAnswer(TRUE, {1, 2}, {}, {}, TRUE, TRUE)

\* the policies picked in the combo box: the initial one and one that sorts on
\* the tracker's annotations
GuiPolicies == {"ROUND_ROBIN", "PRIORITY"}

\* QThread.isRunning(): from start() until run has returned
MutIsRunning == running

IsRunning == thread_pc # "done"

guiSide == <<gui_pc, pause_checked, apps_only_checked, status, gui_processes, gui_events>>

threadFlags == <<running, force_update, thread_apps_only>>

threadLocals == <<slept, thread_processes, call_apps_only, cycles>>

heapVars == <<queue, objects, cache_object, produced>>

\* the states of run in which the thread is inside a host call of unbounded
\* duration, or in a back-off begun after running was cleared: wait(2000) can
\* time out there
SlowStates == {"sysinfo", "filling", "inner_sysinfo", "backoff_late"}

\* a posted process_data_ready event waits at an idle GUI thread.  The event
\* loop of an idle GUI thread takes a posted event at once, so no time passes
\* in this state: the steps of the thread that take time wait for the slot
GuiPending == queue # <<>> /\ gui_pc = "idle"

\* system_data_ready.emit or process_data_ready.emit (lines 44, 48, 66)
NoteEmission(batch) ==
    after_stop' = [batches  |-> IF batch /\ ~running THEN after_stop.batches + 1
                                ELSE after_stop.batches,
                   slices   |-> after_stop.slices,
                   returned |-> after_stop.returned,
                   late     |-> after_stop.late \/ after_stop.returned]

\* the target of the exception handler of lines 70-72
BackoffState == IF running THEN "backoff" ELSE "backoff_late"

\* line 35: while self.running
ThreadLoop ==
    /\ thread_pc = "loop"
    /\ IF running
       THEN /\ cycles < MaxCycles
            /\ cycles' = cycles + 1
            /\ thread_pc' = "sysinfo"
       ELSE /\ thread_pc' = "done"
            /\ UNCHANGED cycles
    /\ UNCHANGED <<now, schedVars, backVars, guiSide, threadFlags, slept, thread_processes,
                   call_apps_only, heapVars, writers, after_stop, unserved>>

\* lines 38-44: get_cpu_percent, get_ram_info, system_data_ready.emit; either
\* call may raise
ThreadSystemInfo(ok) ==
    /\ thread_pc = "sysinfo"
    /\ ~GuiPending
    /\ now' = now + CPU_INTERVAL
    /\ IF ok
       THEN thread_pc' = "acquire" /\ NoteEmission(FALSE)
       ELSE thread_pc' = BackoffState /\ UNCHANGED after_stop
    /\ UNCHANGED <<schedVars, backVars, guiSide, threadFlags, threadLocals, heapVars,
                   writers, unserved>>

\* line 47: list_processes is called with getattr(self, 'apps_only', True)
ThreadAcquireBegin ==
    /\ thread_pc = "acquire"
    /\ call_apps_only' = thread_apps_only
    /\ thread_pc' = "filling"
    /\ unserved' = 0
    /\ UNCHANGED <<now, schedVars, backVars, guiSide, threadFlags, slept, thread_processes,
                   cycles, heapVars, writers, after_stop>>

\* the list object a list_processes call returns: the cache's on a hit, a new
\* one otherwise
FetchedObject(apps_only) ==
    IF CacheValid(process_cache, cache_timestamp, now, GUI_MAX_COUNT, apps_only)
    THEN cache_object ELSE list_calls + 1

\* list_processes(max_count=150, apps_only) run by 'who': on a miss the new
\* list is also the one the cache holds (backend.py:127-133)
Fetch(apps_only, who) ==
    /\ ListCore(GUI_MAX_COUNT, apps_only, GuiAnswer)
    /\ IF CacheValid(process_cache, cache_timestamp, now, GUI_MAX_COUNT, apps_only)
       THEN UNCHANGED <<objects, cache_object, produced, writers>>
       ELSE /\ objects' = ((list_calls + 1) :> returned') @@ objects
            /\ cache_object' = list_calls + 1
            /\ produced' = ((list_calls + 1) :> returned') @@ produced
            /\ writers' = [writers EXCEPT !.cache = @ \cup {who}]

\* line 47: list_processes returns
ThreadAcquireEnd ==
    /\ thread_pc = "filling"
    /\ Fetch(call_apps_only, "thread")
    /\ thread_processes' = FetchedObject(call_apps_only)
    /\ thread_pc' = "emit"
    /\ UNCHANGED <<now, schedVars, guiSide, threadFlags, slept, call_apps_only, cycles,
                   queue, after_stop, unserved>>

\* lines 48-52: process_data_ready.emit(processes); slept = 0
ThreadEmit ==
    /\ thread_pc = "emit"
    /\ queue' = Append(queue, thread_processes)
    /\ slept' = 0
    /\ thread_pc' = "inner"
    /\ NoteEmission(TRUE)
    /\ UNCHANGED <<now, schedVars, backVars, guiSide, threadFlags, thread_processes,
                   call_apps_only, cycles, objects, cache_object, produced, writers,
                   unserved>>

\* a sleep phase that runs its 3000 ms whatever 'running' says
MutThreadWhile ==
    /\ thread_pc = "inner"
    /\ thread_pc' = IF slept < SLEEP_TOTAL THEN "flag" ELSE "loop"
    /\ UNCHANGED <<now, schedVars, backVars, guiSide, threadFlags, threadLocals, heapVars,
                   writers, after_stop, unserved>>

\* line 53: while slept < 3000 and self.running
ThreadWhile ==
    /\ thread_pc = "inner"
    /\ thread_pc' = IF slept < SLEEP_TOTAL /\ running THEN "flag" ELSE "loop"
    /\ UNCHANGED <<now, schedVars, backVars, guiSide, threadFlags, threadLocals, heapVars,
                   writers, after_stop, unserved>>

\* lines 54 and 59: if self.force_update; if slept == 0 or slept == 1500
ThreadFlag ==
    /\ thread_pc = "flag"
    /\ thread_pc' = IF force_update THEN "reset"
                    ELSE IF slept = 0 \/ slept = SLEEP_HALF THEN "inner_sysinfo"
                    ELSE "sleep"
    /\ UNCHANGED <<now, schedVars, backVars, guiSide, threadFlags, threadLocals, heapVars,
                   writers, after_stop, unserved>>

\* where the break of line 57 leads: out of the sleep phase
MutAfterFlagReset == IF slept = 0 \/ slept = SLEEP_HALF THEN "inner_sysinfo" ELSE "sleep"

AfterFlagReset == "loop"

\* lines 56-57: self.force_update = False; break
ThreadReset ==
    /\ thread_pc = "reset"
    /\ force_update' = FALSE
    /\ thread_pc' = AfterFlagReset
    /\ UNCHANGED <<now, schedVars, backVars, guiSide, running, thread_apps_only,
                   threadLocals, heapVars, writers, after_stop, unserved>>

\* lines 60-66: system info at 0 and 1500 ms of the sleep phase
ThreadInnerSystemInfo(ok) ==
    /\ thread_pc = "inner_sysinfo"
    /\ ~GuiPending
    /\ now' = now + CPU_INTERVAL
    /\ IF ok
       THEN thread_pc' = "sleep" /\ NoteEmission(FALSE)
       ELSE thread_pc' = BackoffState /\ UNCHANGED after_stop
    /\ UNCHANGED <<schedVars, backVars, guiSide, threadFlags, threadLocals, heapVars,
                   writers, unserved>>

\* lines 67-68: self.msleep(200); slept += 200
ThreadSleep ==
    /\ thread_pc = "sleep"
    /\ ~GuiPending
    /\ now' = now + SLEEP_SLICE
    /\ slept' = slept + SLEEP_SLICE
    /\ thread_pc' = "inner"
    /\ unserved' = IF unserved = 0 THEN 0 ELSE Min(unserved + 1, 4)
    /\ after_stop' = [after_stop EXCEPT !.slices = IF running THEN @ ELSE Min(@ + 1, 4)]
    /\ UNCHANGED <<schedVars, backVars, guiSide, threadFlags, thread_processes,
                   call_apps_only, cycles, heapVars, writers>>

\* lines 70-72: the exception is printed, self.msleep(2000)
ThreadBackoff ==
    /\ thread_pc \in {"backoff", "backoff_late"}
    /\ ~GuiPending
    /\ now' = now + ERROR_BACKOFF
    /\ thread_pc' = "loop"
    /\ UNCHANGED <<schedVars, backVars, guiSide, threadFlags, threadLocals, heapVars,
                   writers, after_stop, unserved>>

\* the steps of run other than the return of list_processes
ThreadControlStep ==
    \/ ThreadLoop
    \/ \E ok \in BOOLEAN : ThreadSystemInfo(ok)
    \/ ThreadAcquireBegin
    \/ ThreadEmit
    \/ ThreadWhile
    \/ ThreadFlag
    \/ ThreadReset
    \/ \E ok \in BOOLEAN : ThreadInnerSystemInfo(ok)
    \/ ThreadSleep
    \/ ThreadBackoff

ThreadStep ==
    \/ ThreadLoop
    \/ \E ok \in BOOLEAN : ThreadSystemInfo(ok)
    \/ ThreadAcquireBegin
    \/ ThreadAcquireEnd
    \/ ThreadEmit
    \/ ThreadWhile
    \/ ThreadFlag
    \/ ThreadReset
    \/ \E ok \in BOOLEAN : ThreadInnerSystemInfo(ok)
    \/ ThreadSleep
    \/ ThreadBackoff

\* the records of list object 'id' after schedule_processes has run on it:
\* lines 66-92 assign process_number, arrival_time and priority into the dicts
\* of the batch (the empty batch returns at line 54)
\* an annotation that also takes the annotated record off the end of the list
MutAnnotatedShrinking(batch, annotations) ==
    IF batch = <<>> THEN batch
    ELSE [i \in 1..(Len(batch) - 1) |-> annotations[batch[i].pid] @@ batch[i]]

Annotated(batch, annotations) ==
    [i \in 1..Len(batch) |-> annotations[batch[i].pid] @@ batch[i]]

\* update_process_list(processes) on list object 'id' (lines 990-1000, 1152):
\* is_updating is False whenever a handler starts, the handlers of the GUI
\* thread running one at a time
UpdateProcessListCore(id) ==
    /\ ScheduleCore(objects[id], now)
    /\ objects' = [objects EXCEPT ![id] = Annotated(objects[id], seen')]
    /\ process_cache' = IF id = cache_object
                        THEN [process_cache EXCEPT !.processes = objects'[id]]
                        ELSE process_cache
    /\ writers' = IF objects[id] = <<>> THEN writers
                  ELSE [writers EXCEPT !.tracker = @ \cup {"gui"}]
    /\ UNCHANGED <<PSUTIL, IS_WINDOWS, cache_timestamp, host, args, returned, served,
                   list_calls, acquisition>>

\* the queued process_data_ready event reaches its slot
UpdateProcessList ==
    /\ gui_pc = "idle"
    /\ queue # <<>>
    /\ UpdateProcessListCore(Head(queue))
    /\ queue' = Tail(queue)
    /\ UNCHANGED <<guiSide, threadFlags, threadLocals, thread_pc, cache_object, produced,
                   after_stop, unserved>>

\* self.update_thread.force_update = True
RaiseForceUpdate ==
    /\ force_update' = TRUE
    /\ unserved' = IF unserved = 0 THEN 1 ELSE unserved

\* refresh_data up to line 1193: the GUI thread itself calls list_processes
RefreshData(apps_only) ==
    /\ Fetch(apps_only, "gui")
    /\ gui_processes' = FetchedObject(apps_only)
    /\ gui_pc' = "refresh"
    /\ now' = now + CPU_INTERVAL
    /\ UNCHANGED <<threadFlags, threadLocals, thread_pc, queue, after_stop, unserved>>

\* refresh_data, line 1199: update_process_list(processes) called directly
RefreshUpdate ==
    /\ gui_pc = "refresh"
    /\ UpdateProcessListCore(gui_processes)
    /\ gui_pc' = "idle"
    /\ UNCHANGED <<pause_checked, apps_only_checked, status, gui_processes, gui_events,
                   threadFlags, threadLocals, thread_pc, queue, cache_object, produced,
                   after_stop, unserved>>

UserAction ==
    /\ gui_pc = "idle"
    /\ gui_events < MaxGuiEvents
    /\ gui_events' = gui_events + 1

\* manual_refresh (lines 1169-1181)
ManualRefresh ==
    /\ UserAction
    /\ IF IsRunning
       THEN /\ thread_apps_only' = apps_only_checked
            /\ RaiseForceUpdate
            /\ UNCHANGED <<now, backVars, gui_pc, gui_processes, running, threadLocals,
                           thread_pc, heapVars, writers, after_stop>>
       ELSE RefreshData(apps_only_checked)
    /\ UNCHANGED <<schedVars, pause_checked, apps_only_checked, status>>

\* on_apps_only_toggled (lines 1282-1292)
OnAppsOnlyToggled ==
    /\ UserAction
    /\ apps_only_checked' = ~apps_only_checked
    /\ IF IsRunning
       THEN /\ thread_apps_only' = ~apps_only_checked
            /\ RaiseForceUpdate
            /\ UNCHANGED <<now, backVars, gui_pc, gui_processes, running, threadLocals,
                           thread_pc, heapVars, writers, after_stop>>
       ELSE RefreshData(~apps_only_checked)
    /\ UNCHANGED <<schedVars, pause_checked, status>>

\* on_scheduling_changed (lines 1294-1309)
OnSchedulingChanged(a) ==
    /\ UserAction
    /\ a # algorithm
    /\ SetAlgorithmCore(a)
    /\ IF IsRunning
       THEN /\ RaiseForceUpdate
            /\ UNCHANGED <<now, backVars, gui_pc, gui_processes, running, thread_apps_only,
                           threadLocals, thread_pc, heapVars, writers, after_stop>>
       ELSE RefreshData(apps_only_checked)
    /\ UNCHANGED <<pause_checked, apps_only_checked, status>>

\* ProcessUpdateThread.stop up to the wait (lines 75-78)
Stop(waiting) ==
    /\ running' = FALSE
    /\ force_update' = FALSE
    /\ gui_pc' = waiting
    /\ after_stop' = [batches  |-> IF running THEN 0 ELSE after_stop.batches,
                      slices   |-> IF running THEN 0 ELSE after_stop.slices,
                      returned |-> FALSE,
                      late     |-> IF running THEN FALSE ELSE after_stop.late]
    /\ unserved' = 0
    /\ UNCHANGED <<thread_apps_only, threadLocals, thread_pc>>

\* start_updates (lines 945-952)
StartUpdates ==
    IF IsRunning
    THEN UNCHANGED <<thread_pc, threadFlags, threadLocals, after_stop, unserved>>
    ELSE /\ thread_pc' = "loop"
         /\ running' = TRUE
         /\ force_update' = FALSE
         /\ thread_apps_only' = TRUE
         /\ after_stop' = [batches |-> 0, slices |-> 0, returned |-> FALSE, late |-> FALSE]
         /\ unserved' = 0
         /\ UNCHANGED threadLocals

\* toggle_updates (lines 1205-1215); the pause branch goes on in WaitReturn
ToggleUpdates ==
    /\ UserAction
    /\ pause_checked' = ~pause_checked
    /\ IF ~pause_checked
       THEN Stop("stop_pause") /\ UNCHANGED status
       ELSE StartUpdates /\ status' = "Updating" /\ UNCHANGED gui_pc
    /\ UNCHANGED <<now, schedVars, backVars, apps_only_checked, gui_processes, heapVars,
                   writers>>

\* closeEvent (lines 1311-1324) with the thread running; the user then answers
\* No and the window stays
CloseEvent ==
    /\ UserAction
    /\ IsRunning
    /\ Stop("stop_close")
    /\ UNCHANGED <<now, schedVars, backVars, pause_checked, apps_only_checked, status,
                   gui_processes, heapVars, writers>>

\* line 79: wait(2000) returns, the thread finished or the 2000 ms over
WaitReturn ==
    /\ gui_pc \in {"stop_pause", "stop_close"}
    /\ thread_pc = "done" \/ thread_pc \in SlowStates
    /\ after_stop' = [after_stop EXCEPT !.returned = TRUE]
    /\ status' = IF gui_pc = "stop_pause" THEN "Paused" ELSE status
    /\ gui_pc' = "idle"
    /\ UNCHANGED <<now, schedVars, backVars, pause_checked, apps_only_checked,
                   gui_processes, gui_events, threadFlags, threadLocals, thread_pc,
                   heapVars, writers, unserved>>

GuiStep ==
    \/ UpdateProcessList
    \/ RefreshUpdate
    \/ ManualRefresh
    \/ OnAppsOnlyToggled
    \/ \E a \in GuiPolicies : OnSchedulingChanged(a)
    \/ ToggleUpdates
    \/ CloseEvent
    \/ WaitReturn

SchedInit ==
    /\ algorithm = "ROUND_ROBIN"
    /\ time_quantum = 10
    /\ current_time = 0
    /\ process_arrival_times = EmptyMap
    /\ process_priorities = EmptyMap
    /\ process_numbers = EmptyMap
    /\ process_counter = 0
    /\ start_time = StartClock
    /\ processes = <<>>
    /\ result = <<>>
    /\ rotation = 0
    /\ calls = 0
    /\ numberLog = <<>>
    /\ seen = EmptyMap
    /\ missed = {}
    /\ prior = EmptyMap

\* backend.py at import: the empty cache; every process of the host alive
BackInit ==
    /\ process_cache = EmptyDict
    /\ cache_timestamp = 0
    /\ host = HostPids
    /\ args = [max_count |-> 150, apps_only |-> TRUE]
    /\ returned = <<>>
    /\ served = "none"
    /\ list_calls = 0
    /\ acquisition = EmptyDict

\* ModernTaskManager.__init__: start_updates has created and started the
\* thread (gui.py:201), Applications-only is checked, updates are not paused
GuiInit ==
    /\ thread_pc = "loop"
    /\ running = TRUE
    /\ force_update = FALSE
    /\ thread_apps_only = TRUE
    /\ slept = 0
    /\ thread_processes = 0
    /\ call_apps_only = TRUE
    /\ gui_processes = 0
    /\ cycles = 0
    /\ gui_pc = "idle"
    /\ pause_checked = FALSE
    /\ apps_only_checked = TRUE
    /\ status = "Updating"
    /\ queue = <<>>
    /\ objects = EmptyMap
    /\ cache_object = 0
    /\ gui_events = 0
    /\ produced = EmptyMap
    /\ writers = [tracker |-> {}, cache |-> {}]
    /\ after_stop = [batches |-> 0, slices |-> 0, returned |-> FALSE, late |-> FALSE]
    /\ unserved = 0

\* the program as gui.py runs it: psutil is imported, on Windows
Init ==
    /\ now = StartClock
    /\ SchedInit
    /\ BackInit
    /\ GuiInit
    /\ PSUTIL = TRUE
    /\ IS_WINDOWS = TRUE

SpecBatches == Batches(Pids, CpuSamples)

Next ==
    \/ \E batch \in SpecBatches, d \in ClockSteps : ScheduleProcesses(batch, now + d)
    \/ \E a \in SchedulingAlgorithm : SetAlgorithm(a)

Spec == Init /\ [][Next]_vars

\* ordering: a first call that makes pids 1 and 2 known, so that arrival times
\* and blended priorities differ within the next batch, then a call with any
\* batch over OrderPids, under any policy
WarmBatches ==
    {<<>>, <<[pid |-> 1, cpu_percent |-> 400]>>, <<[pid |-> 2, cpu_percent |-> 20]>>,
     <<[pid |-> 2, cpu_percent |-> 50], [pid |-> 1, cpu_percent |-> 20]>>}

OrderBatches == Batches(OrderPids, OrderCpuSamples)

OrderNext ==
    \/ \E batch \in WarmBatches, d \in ClockSteps :
          calls = 0 /\ ScheduleProcesses(batch, now + d)
    \/ \E batch \in OrderBatches, d \in ClockSteps :
          calls = 1 /\ ScheduleProcesses(batch, now + d)
    \/ \E a \in SchedulingAlgorithm : SetAlgorithm(a)

OrderSpec == Init /\ [][OrderNext]_vars

\* priorities: one pid sampled at every cpu_percent of the range; the batch
\* without it (pid 2 alone) makes it a new pid again
PriorityCpus == (0..MaxCpuTenths) \cup HighCpuSamples

PriorityBatches ==
    {<<>>, <<[pid |-> 2, cpu_percent |-> 0]>>}
    \cup {<<[pid |-> 1, cpu_percent |-> c]>> : c \in PriorityCpus}

PriorityNext ==
    \E batch \in PriorityBatches, d \in ClockSteps :
        calls < MaxPriorityCalls /\ ScheduleProcesses(batch, now + d)

PrioritySpec == Init /\ [][PriorityNext]_vars

\* repetition: the policy stays ROUND_ROBIN, the one of __init__, and any batch
\* may be scheduled again
RepeatBatches == Batches(Pids, RepeatCpuSamples)

RepeatNext ==
    \E batch \in RepeatBatches, d \in ClockSteps : ScheduleProcesses(batch, now + d)

RepeatSpec == Init /\ [][RepeatNext]_vars

\* repeated batches under each policy: the policy is chosen before the first
\* call (on_scheduling_changed -> set_algorithm) and then kept
PolicyNext ==
    \/ \E batch \in RepeatBatches, d \in ClockSteps : ScheduleProcesses(batch, now + d)
    \/ \E a \in SchedulingAlgorithm : calls = 0 /\ SetAlgorithm(a)

PolicySpec == Init /\ [][PolicyNext]_vars

\* the GUI: the sampling thread and the handlers of the GUI thread
GuiNext ==
    \/ ThreadStep
    \/ GuiStep

GuiSpec == Init /\ [][GuiNext]_vars

\* the GUI with the scheduling the code relies on: the operating system runs
\* the sampling thread and every host call returns; the event loop of the GUI
\* thread delivers a posted event, and a handler that has started finishes
\* (the return of list_processes and the slot are enabled exactly in the
\* states named below and leave them, so their weak fairness is written as the
\* recurrence of the complement)
GuiFairSpec ==
    /\ GuiSpec
    /\ WF_vars(ThreadControlStep)
    /\ WF_vars(WaitReturn)
    /\ []<>(thread_pc # "filling")
    /\ []<>(~GuiPending)

\* the GUI on a host where a process exits or starts at any moment
GuiHostNext ==
    \/ ThreadStep
    \/ GuiStep
    \/ \E pid \in ChangingPids : HostChange(pid)

GuiHostSpec == Init /\ [][GuiHostNext]_vars

\* acquisition: list_processes on a host whose processes come and go, with or
\* without psutil, on or off Windows
BackendInit ==
    /\ now = StartClock
    /\ SchedInit
    /\ BackInit
    /\ GuiInit
    /\ PSUTIL \in BOOLEAN
    /\ IS_WINDOWS \in BOOLEAN

WindowSets == {{2}, HostPids}

UnreadableSets == {{}, {2}}

FaultySets == {{}, {3}}

\* the answers of the host, each part free only where the call reads it: the
\* windows when apps_only is set on Windows, the per-process failures when the
\* psutil scan starts, the tasklist outcome when the fallback can run
ReadsWindows(apps_only) == apps_only /\ IS_WINDOWS

HostAnswers(apps_only) ==
    {a \in [windows_ok : BOOLEAN, windows : WindowSets \cup {{}},
            unreadable : UnreadableSets, faulty : FaultySets,
            enumeration_ok : BOOLEAN, tasklist_ok : BOOLEAN] :
        /\ a.windows_ok = ReadsWindows(apps_only) \/ (ReadsWindows(apps_only) /\ ~a.windows_ok)
        /\ (a.windows = {}) = ~a.windows_ok
        /\ a.enumeration_ok \/ (a.unreadable = {} /\ a.faulty = {})
        /\ PSUTIL \/ ~a.enumeration_ok
        /\ a.tasklist_ok => (IS_WINDOWS /\ (~a.enumeration_ok \/ a.faulty # {}))}

BackendNext ==
    \/ \E max_count \in 0..MaxCountArg, apps_only \in BOOLEAN :
       \E answer \in HostAnswers(apps_only) :
          ListProcesses(max_count, apps_only, answer)
    \/ \E pid \in ChangingPids : HostChange(pid)
    \/ \E d \in TickSteps : Tick(d)

BackendSpec == BackendInit /\ [][BackendNext]_vars

\* ----------------------------------------------------------------- claims

\* a schedule_processes call is the step that counts up 'calls'
IsCall == calls' = calls + 1

SamePidAndCpu(a, b) == a.pid = b.pid /\ a.cpu_percent = b.cpu_percent

\* C1: for every batch and every policy the returned list is a permutation of
\* the batch: as long as the batch, each input record in it exactly once, and
\* the empty batch returned as the empty list.
C1_Permutation ==
    /\ Len(result) = Len(processes)
    /\ \A i \in 1..Len(processes) :
         Cardinality({j \in 1..Len(result) : SamePidAndCpu(result[j], processes[i])}) = 1
    /\ (processes = <<>> => result = <<>>)

\* a three-record batch came back in another order than it went in
C1_Witness ==
    /\ calls = 2
    /\ Len(processes) = 3
    /\ \E i \in 1..3 : result[i].pid # processes[i].pid
    /\ \E i \in 1..3 : processes[i].cpu_percent = 50

\* C2: a pid absent from a call's batch has no tracked state left after that
\* call, whatever the batch held, and when it is sighted again it is given a
\* process_number and an arrival_time other than the earlier ones.
C2_NoMemoryAcrossAbsence ==
    [][IsCall =>
         /\ \A p \in missed' :
              /\ p \notin DOMAIN process_arrival_times'
              /\ p \notin DOMAIN process_priorities'
              /\ p \notin DOMAIN process_numbers'
         /\ \A p \in missed \cap PidsOf(processes') :
              /\ seen'[p].process_number # seen[p].process_number
              /\ seen'[p].arrival_time # seen[p].arrival_time]_vars

\* C4: a ROUND_ROBIN call on N records rotates by floor(elapsed/quantum) mod N,
\* elapsed being the clock at that call minus start_time.
C4_RotationFollowsClock ==
    [][(IsCall /\ algorithm = "ROUND_ROBIN" /\ processes' # <<>>) =>
         rotation' = ((now' - start_time) \div time_quantum) % Len(processes')]_vars

C6_PriorityRange ==
    /\ \A p \in DOMAIN process_priorities : process_priorities[p] \in 1..100
    /\ \A i \in 1..Len(result) : result[i].priority \in 1..100

\* a blended priority sits at the upper end of the range
C6_Witness ==
    /\ calls = 2
    /\ \E p \in DOMAIN process_priorities \cap DOMAIN prior :
         prior[p] = 100 /\ process_priorities[p] = 100

\* round(x) of x = n/10, half to even
RoundTenths(n) ==
    IF n % 10 = 5 THEN (IF (n \div 10) % 2 = 0 THEN n \div 10 ELSE (n \div 10) + 1)
    ELSE (n + 5) \div 10

\* the seed formula with round(): clamp(1, 100, round(c*2) + 50), +20 above 10.0
RoundedBase(c) ==
    LET b == Min(100, Max(1, RoundTenths(2 * c) + 50))
    IN  IF c > 100 THEN Min(100, b + 20) ELSE b

\* the seed formula with truncation: clamp(1, 100, floor(c*2) + 50), +20 above 10.0
TruncatedBase(c) ==
    LET b == Min(100, Max(1, (c \div 5) + 50))
    IN  IF c > 100 THEN Min(100, b + 20) ELSE b

CpuIn(batch, p) == batch[CHOOSE i \in 1..Len(batch) : batch[i].pid = p].cpu_percent

\* C7 as stated: a tracked pid's priority becomes round(0.7*old + 0.3*base),
\* base the rounded seed formula.
C7_BlendRounds ==
    [][IsCall =>
         \A p \in PidsOf(processes') \cap DOMAIN process_priorities :
             process_priorities'[p] =
                 RoundTenths(7 * process_priorities[p]
                             + 3 * RoundedBase(CpuIn(processes', p)))]_vars

\* C7 as amended: a tracked pid's priority becomes 0.7*old + 0.3*base truncated,
\* base the truncated seed formula, computed in double precision: floor((7*old +
\* 3*base)/10), except that it may be one less when 7*old + 3*base is a multiple
\* of 10; old = 50 and c = 50.0 give 65.
C7_BlendTruncates ==
    [][IsCall =>
         \A p \in PidsOf(processes') \cap DOMAIN process_priorities :
             LET old  == process_priorities[p]
                 base == TruncatedBase(CpuIn(processes', p))
                 new  == process_priorities'[p]
             IN  /\ new <= (7 * old + 3 * base) \div 10
                 /\ new >= ((7 * old + 3 * base) \div 10) - 1
                 /\ (7 * old + 3 * base) % 10 # 0 => new = (7 * old + 3 * base) \div 10
                 /\ (old = 50 /\ CpuIn(processes', p) = 500) => new = 65
                 /\ seen'[p].priority = new]_vars

\* the scenario: priority 50, then a sighting at 50.0
C7_Witness ==
    /\ calls = 2
    /\ \E p \in PidsOf(processes) \cap DOMAIN prior :
         prior[p] = 50 /\ CpuIn(processes, p) = 500 /\ process_priorities[p] = 65

\* C8 as stated: an untracked pid is given clamp(1, 100, round(c*2) + 50), +20
\* above 10.0, capped at 100.
C8_SeedRounds ==
    [][IsCall =>
         \A p \in PidsOf(processes') \ DOMAIN process_priorities :
             seen'[p].priority = RoundedBase(CpuIn(processes', p))]_vars

\* C8 as amended: an untracked pid is given clamp(1, 100, floor(c*2) + 50), +20
\* above 10.0, capped at 100: c*2 is truncated, not rounded.
C8_SeedTruncates ==
    [][IsCall =>
         \A p \in PidsOf(processes') \ DOMAIN process_priorities :
             /\ seen'[p].priority = TruncatedBase(CpuIn(processes', p))
             /\ process_priorities'[p] = seen'[p].priority]_vars

\* a new pid at 0.3: 0.6 truncates to 0 where it would round to 1
C8_Witness ==
    /\ calls = 1
    /\ \E p \in PidsOf(processes) :
         CpuIn(processes, p) = 3 /\ process_priorities[p] = 50 /\ p \notin DOMAIN prior

\* C9: a pid in the batch of two consecutive calls is given the same
\* arrival_time and process_number by both; a sighting of a tracked pid leaves
\* its stored arrival_time and process_number as they are; a pid not tracked
\* when the call begins is given the call's clock reading minus start_time.
C9_ArrivalAndNumberFixed ==
    [][IsCall =>
         /\ \A p \in PidsOf(processes) \cap PidsOf(processes') :
              /\ seen'[p].arrival_time = seen[p].arrival_time
              /\ seen'[p].process_number = seen[p].process_number
         /\ \A p \in PidsOf(processes') \cap DOMAIN process_arrival_times :
              /\ process_arrival_times'[p] = process_arrival_times[p]
              /\ process_numbers'[p] = process_numbers[p]
              /\ seen'[p].arrival_time = process_arrival_times[p]
              /\ seen'[p].process_number = process_numbers[p]
         /\ \A p \in PidsOf(processes') \ DOMAIN process_arrival_times :
              seen'[p].arrival_time = now' - start_time]_vars

\* a pid sighted in three consecutive calls, its priority moved, its arrival
\* time that of the first call
C9_Witness ==
    /\ calls = 3
    /\ \E p \in DOMAIN process_arrival_times \cap DOMAIN prior :
         /\ process_arrival_times[p] + start_time < now - 250
         /\ process_priorities[p] # prior[p]

IsListCall == list_calls' = list_calls + 1

\* the cache as the claim describes it: filled by an acquisition that started
\* less than CACHE_DURATION before this call, with this call's two arguments
FilledBySameRequest ==
    /\ "start" \in DOMAIN acquisition
    /\ now - acquisition.start < CACHE_DURATION
    /\ args'.max_count = acquisition.max_count
    /\ args'.apps_only = acquisition.apps_only

\* C3: a list_processes call returns the cached batch, acquiring nothing and
\* leaving the cache as it is, exactly when it starts less than CACHE_DURATION
\* after the start of the acquisition that filled the cache and both of its
\* arguments equal that acquisition's, whatever the host has become; every
\* other call runs a fresh acquisition on the present host, whose result,
\* arguments and start time replace the cache.
C3_CacheHitExactly ==
    [][IsListCall =>
        IF FilledBySameRequest
        THEN /\ served' = "cache"
             /\ returned' = process_cache.processes
             /\ UNCHANGED <<process_cache, cache_timestamp, acquisition>>
        ELSE /\ served' \in {"primary", "fallback"}
             /\ PidsOf(returned') \subseteq host
             /\ process_cache'.processes = returned'
             /\ process_cache'.max_count = args'.max_count
             /\ process_cache'.apps_only = args'.apps_only
             /\ cache_timestamp' = now
             /\ acquisition'.start = now]_vars

\* a call answered from the cache half a second after the acquisition, with a
\* process in the batch that the host no longer runs
C3_Witness ==
    /\ served = "cache"
    /\ now - acquisition.start = 500
    /\ \E p \in PidsOf(returned) : p \notin host

\* C10: for every non-negative max_count the batch list_processes returns has
\* at most max_count records, however it was produced.
C10_AtMostMaxCount == list_calls > 0 => Len(returned) <= args.max_count

\* what the code does keep: the bound for every positive max_count
C10_PositiveBound ==
    (list_calls > 0 /\ args.max_count >= 1) => Len(returned) <= args.max_count

\* a batch cut at max_count while the host runs more processes
C10_Truncated ==
    /\ served = "primary"
    /\ args.max_count = 2
    /\ Len(returned) = 2
    /\ host = HostPids

\* a list_processes call that ran an acquisition
IsAcquisition == IsListCall /\ served' # "cache"

\* the batch the same acquisition yields when asked with apps_only off: same
\* host, same max_count, same answers of the host
WithoutFilter == Acquire(host, args'.max_count, FALSE, acquisition'.answer).procs

\* C11: when apps_only is requested and the host cannot tell which processes
\* own a window (not Windows, or the window enumeration fails), the filter
\* does nothing: the call returns the batch it returns with apps_only off.
C11_FilterIsNoOp ==
    [][(IsAcquisition /\ args'.apps_only
          /\ (~IS_WINDOWS \/ ~acquisition'.answer.windows_ok))
       => returned' = WithoutFilter]_vars

\* the part of C11 the code keeps: off Windows the filter does nothing
C11_NoOpOffWindows ==
    [][(IsAcquisition /\ args'.apps_only /\ ~IS_WINDOWS)
       => returned' = WithoutFilter]_vars

\* the process table could not be enumerated at all
EnumerationFailed == ~PSUTIL \/ ~acquisition'.answer.enumeration_ok

IsScan == IsAcquisition /\ PSUTIL /\ acquisition'.answer.enumeration_ok

\* the batch the same acquisition yields on the host 'live' when every read
\* succeeds
ScanOf(live) ==
    Acquire(live, args'.max_count, args'.apps_only,
            [acquisition'.answer EXCEPT !.unreadable = {}, !.faulty = {}]).procs

CpuMemDescending(procs) ==
    \A i \in 1..Len(procs) : \A j \in (i + 1)..Len(procs) : ~CpuMemLess(procs[i], procs[j])

\* C14: every batch list_processes stores in the cache and returns is sorted
\* in descending order of (cpu_percent, memory_mb), whichever path produced it.
C14_CachedBatchSorted ==
    list_calls > 0 => /\ process_cache.processes = returned
                      /\ CpuMemDescending(returned)

\* the part of C14 the code keeps: the batch of the psutil path is sorted
C14_PrimaryBatchSorted ==
    (list_calls > 0 /\ served = "primary") => CpuMemDescending(returned)

PidSeq(procs) == [i \in 1..Len(procs) |-> procs[i].pid]

Ascending(procs, key) ==
    \A i \in 1..Len(procs) : \A j \in (i + 1)..Len(procs) : procs[i][key] <= procs[j][key]

Descending(procs, key) ==
    \A i \in 1..Len(procs) : \A j \in (i + 1)..Len(procs) : procs[i][key] >= procs[j][key]

\* the batch of the scenario: (pid, cpu) = (1, 2.0), (2, 40.0), (3, 5.0)
ScenarioBatch ==
    <<[pid |-> 1, cpu_percent |-> 20], [pid |-> 2, cpu_percent |-> 400],
      [pid |-> 3, cpu_percent |-> 50]>>

\* C15: under SJF the output is in ascending cpu_percent order, and the batch
\* (1, 2), (2, 40), (3, 5) comes out as pids 1, 3, 2.
C15_SjfAscending ==
    [][(IsCall /\ algorithm = "SJF")
       => /\ Ascending(result', "cpu_percent")
          /\ processes' = ScenarioBatch => PidSeq(result') = <<1, 3, 2>>]_vars

C15_Witness ==
    /\ algorithm = "SJF"
    /\ calls = 2
    /\ processes = ScenarioBatch
    /\ PidSeq(result) = <<1, 3, 2>>

C17_PriorityDescending ==
    [][(IsCall /\ algorithm = "PRIORITY") => Descending(result', "priority")]_vars

\* three priorities, all different, the highest not first in the batch
C17_Witness ==
    /\ algorithm = "PRIORITY"
    /\ calls = 2
    /\ Len(result) = 3
    /\ result[1].priority > result[2].priority
    /\ result[2].priority > result[3].priority
    /\ result[1].pid # processes[1].pid

\* C18: under MULTILEVEL_QUEUE every record with cpu_percent > 5.0 precedes
\* every record with cpu_percent <= 5.0, and within each of the two groups the
\* records are in descending cpu_percent order.
C18_MultilevelOrder ==
    [][(IsCall /\ algorithm = "MULTILEVEL_QUEUE")
       => \A i \in 1..Len(result') : \A j \in (i + 1)..Len(result') :
            /\ ~(result'[i].cpu_percent <= 50 /\ result'[j].cpu_percent > 50)
            /\ (result'[i].cpu_percent > 50) = (result'[j].cpu_percent > 50)
                 => result'[i].cpu_percent >= result'[j].cpu_percent]_vars

\* a record at 40.0 was moved in front of the ones at 5.0 and 2.0
C18_Witness ==
    /\ algorithm = "MULTILEVEL_QUEUE"
    /\ calls = 2
    /\ Len(result) = 3
    /\ result[1].cpu_percent = 400
    /\ result[2].cpu_percent = 50
    /\ result[3].cpu_percent = 20
    /\ processes[1].cpu_percent # 400

\* the sort key of the policy in force
SortKey ==
    CASE algorithm = "FCFS" -> "arrival_time"
      [] algorithm = "PRIORITY" -> "priority"
      [] OTHER -> "cpu_percent"

\* position of a pid in the batch the sort was applied to: the batch itself,
\* rotated by 'rotation' under ROUND_ROBIN
PositionBeforeSort(batch, pid, r) ==
    LET pos == CHOOSE i \in 1..Len(batch) : batch[i].pid = pid
    IN  IF algorithm = "ROUND_ROBIN" THEN ((pos - 1 - r) % Len(batch)) + 1 ELSE pos

\* C19: every policy sorts stably: two records equal on the policy's sort key
\* come out in the relative order they had in the batch (in the rotated batch
\* under ROUND_ROBIN), for the ascending and the descending sorts alike.
C19_StableSort ==
    [][IsCall
       => \A i \in 1..Len(result') : \A j \in (i + 1)..Len(result') :
            result'[i][SortKey] = result'[j][SortKey]
              => PositionBeforeSort(processes', result'[i].pid, rotation')
                   < PositionBeforeSort(processes', result'[j].pid, rotation')]_vars

\* a descending sort with two records tied on the key behind a larger one that
\* was moved to the front: the tied ones kept their order
C19_Witness ==
    /\ algorithm = "PRIORITY"
    /\ calls = 2
    /\ Len(result) = 3
    /\ result[1].pid = processes[3].pid
    /\ result[2].priority = result[3].priority
    /\ result[2].pid = processes[1].pid
    /\ result[3].pid = processes[2].pid

\* C20: ROUND_ROBIN is deterministic: with the scheduler's elapsed time
\* (current_time), the quantum and the batch the same as in the call before,
\* a call puts out the same sequence of processes, whatever the tracker has
\* learnt in between.  (Under RepeatSpec the call before was ROUND_ROBIN too.)
C20_RoundRobinRepeatable ==
    [][(IsCall /\ calls >= 1 /\ algorithm = "ROUND_ROBIN" /\ processes' = processes
          /\ current_time' = current_time /\ time_quantum' = time_quantum)
       => /\ Len(result') = Len(result)
          /\ \A i \in 1..Len(result) : SamePidAndCpu(result'[i], result[i])]_vars

\* the second call on the batch of the first call, (pid, cpu) in the same
\* order: a priority has moved in between, the output is not in batch order
C20_Witness ==
    /\ algorithm = "ROUND_ROBIN"
    /\ calls = 2
    /\ Len(processes) = 2
    /\ DOMAIN prior = PidsOf(processes)
    /\ \A i \in 1..2 : /\ process_numbers[processes[i].pid] = i
                       /\ prior[processes[i].pid] = BasePriority(processes[i].cpu_percent)
    /\ \E p \in DOMAIN prior : process_priorities[p] # prior[p]
    /\ PidSeq(result) # PidSeq(processes)

\* the annotated batch a call makes of 'batch' at 'call_time' from the tables
\* as they stand: no policy enters it
Tracked(batch, call_time) ==
    TrackAll([arrival |-> process_arrival_times, priority |-> process_priorities,
              number |-> process_numbers, counter |-> process_counter,
              out |-> <<>>, log |-> numberLog],
             batch, Len(batch), call_time).out

\* the order policy 'a' gives to an annotated batch
PolicyOrder(a, procs) ==
    CASE a = "FCFS" -> Fcfs(procs)
      [] a = "SJF" -> Sjf(procs)
      [] a = "PRIORITY" -> Priority(procs)
      [] a = "ROUND_ROBIN" -> RoundRobin(procs)
      [] a = "MULTILEVEL_QUEUE" -> MultilevelQueue(procs)

RecordsOf(procs) == {procs[i] : i \in 1..Len(procs)}

\* a set_algorithm call is the step that changes 'algorithm'
IsSetAlgorithm == algorithm' # algorithm

\* C27: set_algorithm changes only the active policy: the arrival times,
\* priorities, process numbers and the counter stay as they are; the next
\* schedule_processes call orders by the policy then in force; and the
\* annotated records a call returns are the same under each of the five
\* policies.
C27_PolicyOnly ==
    [][/\ IsSetAlgorithm
          => UNCHANGED <<process_arrival_times, process_priorities, process_numbers,
                         process_counter, time_quantum, current_time, start_time>>
       /\ (IsCall /\ processes' # <<>>)
          => \E tracked \in {Tracked(processes', now')} :
               /\ result' = PolicyOrder(algorithm, tracked)
               /\ \A a \in SchedulingAlgorithm :
                    RecordsOf(PolicyOrder(a, tracked)) = RecordsOf(result')]_vars

\* the policy was switched away from the initial ROUND_ROBIN with two pids
\* tracked, and the call after it put the batch in the new policy's order
C27_Witness ==
    /\ algorithm = "SJF"
    /\ calls = 2
    /\ DOMAIN prior = {1, 2}
    /\ process_counter = 2
    /\ Len(result) = 2
    /\ PidSeq(result) # PidSeq(processes)

\* the call repeats the batch of the call before: same pids, same samples, in
\* the same order
IsRepeatedCall == IsCall /\ calls >= 1 /\ processes' = processes

\* C28 as stated: a call that repeats the batch of the call before, under the
\* same policy, returns the pids in the same order, for each of the five
\* policies.
C28_SameOrderAllPolicies ==
    [][IsRepeatedCall => PidSeq(result') = PidSeq(result)]_vars

\* C28, corrected: a call that repeats the batch of the call before returns
\* the pids in the same order under FCFS, SJF, ROUND_ROBIN and
\* MULTILEVEL_QUEUE; under PRIORITY the order follows the smoothed priorities,
\* which a repeated sighting moves.
C28_SameOrderButPriority ==
    [][(IsRepeatedCall /\ algorithm # "PRIORITY")
       => PidSeq(result') = PidSeq(result)]_vars

\* the second call on the batch of the first call under MULTILEVEL_QUEUE: both
\* pids were numbered and seeded by the first call in batch order, and the
\* output is not in batch order
C28_Witness ==
    /\ algorithm = "MULTILEVEL_QUEUE"
    /\ calls = 2
    /\ Len(processes) = 2
    /\ DOMAIN prior = PidsOf(processes)
    /\ \A i \in 1..2 : /\ process_numbers[processes[i].pid] = i
                       /\ prior[processes[i].pid] = BasePriority(processes[i].cpu_percent)
    /\ PidSeq(result) # PidSeq(processes)

\* C30: a tracked pid sighted again with the cpu_percent of its previous
\* sighting, hence the same base priority b, has its priority moved toward b
\* and never across it (from b it stays at b), and a priority that no longer
\* changes lies within b-3 .. b.
C30_SettlesWithoutOvershoot ==
    [][IsCall =>
         \A p \in PidsOf(processes') \cap DOMAIN process_priorities :
             (p \in DOMAIN seen /\ seen[p].cpu_percent = CpuIn(processes', p))
             => LET old == process_priorities[p]
                    b   == BasePriority(CpuIn(processes', p))
                    new == process_priorities'[p]
                IN  /\ old >= b => (b <= new /\ new <= old)
                    /\ old <= b => (old <= new /\ new <= b)
                    /\ new = old => (b - 3 <= new /\ new <= b)]_vars

\* a pid seeded at 0.5 (priority 51 = b) and sighted again at 0.5: the
\* priority has left b for 50
C30_Witness ==
    /\ calls = 2
    /\ \E p \in PidsOf(processes) \cap DOMAIN prior :
         /\ CpuIn(processes, p) = 5
         /\ prior[p] = BasePriority(5)
         /\ process_priorities[p] = BasePriority(5) - 1

\* the fields list_processes gives a record (backend.py:101-107)
AcquiredFields == {"pid", "name", "exe", "memory_mb", "cpu_percent"}

\* a batch reduced to the fields it was acquired with
AsAcquired(batch) ==
    [i \in 1..Len(batch) |-> [f \in AcquiredFields |-> batch[i][f]]]

\* the list objects a consumer holds or is about to receive: the posted
\* process_data_ready events and the local 'processes' of refresh_data
Receivable ==
    {queue[i] : i \in 1..Len(queue)} \cup (IF gui_pc = "refresh" THEN {gui_processes} ELSE {})

\* C21: every batch the consumer receives, through process_data_ready or from
\* its own list_processes call, is the complete result of exactly one
\* acquisition, as that acquisition returned it; the list an acquisition in
\* progress is filling is not reachable by anyone, and the batch last handed to
\* the scheduler was such a complete result.
C21_CompleteBatches ==
    /\ \A id \in Receivable :
         id \in DOMAIN produced /\ AsAcquired(objects[id]) = produced[id]
    /\ thread_pc = "filling" => (list_calls + 1) \notin (Receivable \cup DOMAIN objects)
    /\ calls > 0 => \E id \in DOMAIN produced : AsAcquired(processes) = produced[id]

\* the host lost pid 1 between two acquisitions, and the consumer has received
\* the second batch, which differs from the first
C21_Witness ==
    /\ calls = 2
    /\ DOMAIN produced = {1, 2}
    /\ produced[1] # produced[2]
    /\ PidsOf(produced[1]) = {1, 2}
    /\ PidsOf(produced[2]) = {2}
    /\ AsAcquired(processes) = produced[2]

\* C22: schedule_processes leaves the records held in the acquisition cache as
\* they are, and a cache hit returns the records with exactly the fields and
\* values they were acquired with.
C22_PublishedBatchImmutable ==
    [][/\ IsCall => process_cache' = process_cache
       /\ (list_calls' = list_calls + 1 /\ served' = "cache")
          => returned' = produced[cache_object]]_vars

\* a cache hit has returned records that carry the scheduler's annotations
C22_Witness ==
    /\ served = "cache"
    /\ returned # <<>>
    /\ "priority" \in DOMAIN returned[1]
    /\ AsAcquired(returned) = produced[cache_object]

\* the step assigns the tracker's tables or its counter
TrackerWritten ==
    <<process_arrival_times, process_priorities, process_numbers, process_counter>>'
        # <<process_arrival_times, process_priorities, process_numbers, process_counter>>

\* the step assigns _process_cache and _cache_timestamp (backend.py:126-133)
CacheAssigned == cache_timestamp' # cache_timestamp \/ cache_object' # cache_object

\* the step is one of the sampling thread
IsThreadStep == thread_pc' # thread_pc /\ thread_pc # "done"

C24_QuiescedAfterStop ==
    after_stop.returned => (thread_pc = "done" /\ ~after_stop.late)

\* stop() has returned on the time-out of its wait, and the thread has since
\* emitted a batch
C24_Witness ==
    /\ after_stop.returned
    /\ after_stop.late
    /\ after_stop.batches = 1
    /\ ~running
    /\ thread_pc = "inner"

\* C25: once running is False the loop emits at most one more batch, begins at
\* most one more 200 ms slice of its sleep phase, starts no new cycle, and,
\* every host call returning, run returns; from the back-off as from anywhere
\* else.
C25_CooperativeBoundedStop ==
    /\ [](~running => (after_stop.batches <= 1 /\ after_stop.slices <= 1))
    /\ [][~running => cycles' = cycles]_vars
    /\ (~running ~> thread_pc = "done")
    /\ ((~running /\ thread_pc \in {"backoff", "backoff_late"}) ~> thread_pc = "done")

\* run has returned after a stop request that found the thread inside a host
\* call: one batch was emitted after the request
C25_Witness ==
    /\ ~running
    /\ thread_pc = "done"
    /\ after_stop.batches = 1
    /\ after_stop.returned

\* the positions of run from which, running being True, the next thing the
\* thread does with the process list is to call list_processes
HeadingToCall == {"reset", "loop", "sysinfo", "acquire", "backoff", "backoff_late"}

\* C26: while the loop keeps running a force_update signal is not lost: until
\* a list_processes call has begun after it, either the flag is still set or
\* the thread has left the sleep phase for its next call, and at most one
\* 200 ms slice begins in between.  Signals are coalesced: the flag is set by
\* the GUI's signals only, the loop breaks only on a set flag and clears it in
\* doing so, and goes on sleeping on a clear one.  Under fair scheduling the
\* call does begin, unless the loop is stopped first (or the cycles explored
\* are used up).
C26_ForceUpdateCoalesced ==
    /\ []((running /\ unserved > 0)
            => /\ force_update \/ thread_pc \in HeadingToCall
               /\ unserved <= 2)
    /\ [][/\ (force_update' /\ ~force_update) => gui_events' = gui_events + 1
          /\ (thread_pc = "flag" /\ thread_pc' # "flag")
             => (thread_pc' = "reset") = force_update
          /\ (thread_pc = "reset" /\ thread_pc' # "reset")
             => (~force_update' /\ thread_pc' = "loop")
          /\ (thread_pc = "acquire" /\ thread_pc' = "filling") => unserved' = 0]_vars
    /\ ((running /\ unserved > 0) ~> (unserved = 0 \/ ~running \/ cycles = MaxCycles))

\* a policy change and a filter toggle were both signalled during the first
\* two slices of the first sleep phase; one break has consumed them, and the
\* second cycle's call has begun with the flag clear
C26_Witness ==
    /\ running
    /\ gui_events = 2
    /\ algorithm = "PRIORITY"
    /\ ~apps_only_checked
    /\ ~pause_checked
    /\ cycles = 2
    /\ thread_pc = "filling"
    /\ slept = 2 * SLEEP_SLICE
    /\ ~force_update
    /\ unserved = 0

\* C29: the step that resumes updates (toggle_updates with the pause action
\* unchecked) shows 'Updating' and leaves a sampling loop running that has
\* not been told to stop.
C29_ResumeRestoresSampling ==
    [][(pause_checked /\ ~pause_checked')
       => (status' = "Updating" /\ running' /\ thread_pc' # "done")]_vars

\* 'Updating' is shown to an idle GUI, pause unchecked, after two user actions
\* and a stop() that timed out (the thread emitted its batch after stop() had
\* returned): run has returned and nothing samples
C29_Witness ==
    /\ status = "Updating"
    /\ ~pause_checked
    /\ gui_pc = "idle"
    /\ thread_pc = "done"
    /\ ~force_update
    /\ after_stop.returned
    /\ after_stop.batches = 1
    /\ after_stop.late
    /\ gui_events = 2
    /\ queue = <<>>
    /\ calls = 1

====
